---- MODULE Spec2Model ----
(***************************************************************************)
(* Hierarchical layout orchestration of react-flow-automated-layout:       *)
(* ancestor paths, LCA resolution, temporary edges, the per-container      *)
(* layout step, the full-tree and the selective orchestrators,             *)
(* calculateLayout and applyLayout.                                        *)
(***************************************************************************)
EXTENDS Integers, Sequences, FiniteSets, TLC

(***************************************************************************)
(* Identifiers.  A node id is a string; None stands for an absent          *)
(* parentId (undefined); "ghost" is an id that resolves to no node.        *)
(***************************************************************************)
Ids == {"A", "B", "x", "y"}
None == "none"
Ghost == "ghost"
NoParentKey == "no-parent"

Range(s) == {s[i] : i \in 1..Len(s)}

IndexOf(s, v) == IF v \in Range(s) THEN CHOOSE i \in 1..Len(s) : s[i] = v /\ \A j \in 1..(i-1) : s[j] # v ELSE 0

VARIABLES
  parentOf,     \* node id -> parentId (None when absent); DOMAIN = ids in the node map
  fnOut,        \* result of the last pure-function call
  hiddenIds,    \* ids of the nodes with hidden = true
  layoutHidden, \* the layoutHidden flag of the request
  selection,    \* selectedNodes of the request (ids, in order)
  failAt,       \* the container at whose layout the engine rejects (None: never)
  inputEdges,   \* the edge values the caller passed in (never written)
  extraIndex,   \* entries a caller-built parent -> children index holds beyond those of the nodes
  layoutEngines, \* the names under which a layout engine is registered
  algorithm,    \* the selected algorithm name
  nodeMap,      \* nodeIdWithNode: the shared node objects (mutable fields)
  edgeObj,      \* the caller's edge objects (mutable source / target)
  phase,        \* position of the request
  levels,       \* full-tree mode: container ids per level still to lay out, deepest first, sentinel last
  inflight,     \* full-tree mode: the pending layoutSingleContainer calls of the level, in call order
  levelOrder,   \* full-tree mode: the container ids of the level being awaited, in call order
  walks,        \* selective mode: one record per organizeLayoutRecursively run
  allUpdatedNodes, \* organizeLayoutByTreeDepth accumulator
  allUpdatedEdges, \* organizeLayoutByTreeDepth accumulator
  started,      \* container ids whose layoutSingleContainer call has started
  finished,     \* container ids whose layoutSingleContainer call has completed
  engineCalls,  \* <<container id, engine name>> of every engine call made
  calcResult,   \* what calculateLayout resolved to
  committed,    \* what was handed to updateNodes / updateEdges
  returned,     \* what applyLayout resolved to
  ctxNodes,     \* useLayoutOperations: the nodes of the context state
  ctxEdges,     \* useLayoutOperations: the edges of the context state
  currentRef,   \* currentLayoutAbortControllerRef.current (0: null, k: the controller of call k)
  abortedSet,   \* the calls whose AbortController has been aborted
  calls,        \* per applyLayout call: position, nodesData, edgesData, outcome
  commits,      \* what was handed to updateNodes / updateEdges (or setNodes / setEdges), in order
  layoutInProgress, \* the layoutInProgress flag
  direction,    \* LayoutProvider state: the layout direction
  nodeSpacing,  \* LayoutProvider state: the node spacing
  layerSpacing, \* LayoutProvider state: the layer spacing
  autoLayout,   \* LayoutProvider state: the autoLayout switch
  childrenInitialized, \* LayoutProvider state: the relationship maps have been populated
  nodesLength,  \* LayoutProvider state: the node count the provider last recorded
  flowNodes,    \* useNodes(): the ids of the nodes the host holds
  applyingLayoutRef, \* applyingLayoutRef.current
  effectQueued, \* the auto-layout effect is due to run (one of its dependencies changed)
  running,      \* the provider request awaiting calculateLayout: the settings and nodes it captured
  applied       \* the settings of the layout last handed to the host

fnVars == <<fnOut>>

inputVars == <<parentOf, hiddenIds, layoutHidden, selection, failAt, inputEdges, extraIndex,
               layoutEngines, algorithm>>

pipeVars == <<nodeMap, edgeObj, phase, levels, inflight, levelOrder, walks, allUpdatedNodes,
              allUpdatedEdges, started, finished, engineCalls, calcResult, committed, returned>>

opsVars == <<ctxNodes, ctxEdges, currentRef, abortedSet, calls, commits, layoutInProgress>>

autoVars == <<direction, nodeSpacing, layerSpacing, autoLayout, childrenInitialized, nodesLength,
              flowNodes, applyingLayoutRef, effectQueued, running, applied>>

vars == <<fnVars, inputVars, pipeVars, opsVars, autoVars>>

MaxCalls == 3

\* no applyLayout call of the overlapping-calls specification has been made
\* LayoutProvider.tsx lines 424 and 457-460: the built-in engine is registered and selected
EnginesIdle ==
  /\ layoutEngines = {"dagre"}
  /\ algorithm = "dagre"

\* no layout has been handed to the host yet
NoSettings == [direction |-> None, nodeSpacing |-> 0, layerSpacing |-> 0]

\* the provider has no request awaiting calculateLayout
NoRequest == [settings |-> NoSettings, nodes |-> {}]

\* the provider as it is mounted with its defaults, its effects not modelled
AutoIdle ==
  /\ direction = "DOWN"
  /\ nodeSpacing = 50
  /\ layerSpacing = 50
  /\ autoLayout = TRUE
  /\ childrenInitialized = FALSE
  /\ nodesLength = 0
  /\ flowNodes = {}
  /\ applyingLayoutRef = FALSE
  /\ effectQueued = FALSE
  /\ running = NoRequest
  /\ applied = NoSettings

OpsIdle ==
  /\ ctxNodes = <<>>
  /\ ctxEdges = <<>>
  /\ currentRef = 0
  /\ abortedSet = {}
  /\ calls = <<>>
  /\ commits = <<>>
  /\ layoutInProgress = FALSE

(***************************************************************************)
(* treeUtils.ts                                                            *)
(***************************************************************************)

\* faulty variant: the walk stops at a parentless node without recording the sentinel
RECURSIVE AncestorWalkDropsSentinel(_, _, _)
AncestorWalkDropsSentinel(current, path, par) ==
  IF current = NoParentKey THEN Append(path, NoParentKey)
  ELSE IF current \in Range(path) THEN path
  ELSE LET pushed == Append(path, current) IN
       IF current \notin DOMAIN par \/ par[current] = None
         THEN pushed
         ELSE AncestorWalkDropsSentinel(par[current], pushed, par)

\* the walk closing the path with the sentinel when it meets a visited id
RECURSIVE AncestorWalkSentinelOnCycle(_, _, _)
AncestorWalkSentinelOnCycle(current, path, par) ==
  IF current = NoParentKey THEN Append(path, NoParentKey)
  ELSE IF current \in Range(path) THEN Append(path, NoParentKey)
  ELSE LET pushed == Append(path, current) IN
       IF current \notin DOMAIN par \/ par[current] = None
         THEN Append(pushed, NoParentKey)
         ELSE AncestorWalkSentinelOnCycle(par[current], pushed, par)

\* the while loop of getAncestorPath: `current`, the path built so far
RECURSIVE AncestorWalk(_, _, _)
AncestorWalk(current, path, par) ==
  IF current = NoParentKey THEN Append(path, NoParentKey)
  ELSE IF current \in Range(path) THEN path
  ELSE LET pushed == Append(path, current) IN
       IF current \notin DOMAIN par \/ par[current] = None
         THEN Append(pushed, NoParentKey)
         ELSE AncestorWalk(par[current], pushed, par)

getAncestorPath(nodeId, par) == AncestorWalk(nodeId, <<>>, par)

NullLCA == [lca |-> None, sourceChild |-> None, targetChild |-> None]

\* index (1-based) of the first source ancestor that is also a target ancestor, 0 if none
FirstCommonIndex(sourceAncestors, targetAncestors) ==
  LET hits == {i \in 1..Len(sourceAncestors) : sourceAncestors[i] \in Range(targetAncestors)}
  IN IF hits = {} THEN 0 ELSE CHOOSE i \in hits : \A j \in hits : i <= j

\* faulty variant: the entries are the endpoints themselves, never the child below the lca
findLCAWithChildrenNoClimb(sourceNodeId, targetNodeId, par) ==
  LET sourceAncestors == getAncestorPath(sourceNodeId, par)
      targetAncestors == getAncestorPath(targetNodeId, par)
      si == FirstCommonIndex(sourceAncestors, targetAncestors)
  IN IF si = 0 THEN NullLCA
     ELSE [lca |-> sourceAncestors[si], sourceChild |-> sourceNodeId, targetChild |-> targetNodeId]

findLCAWithChildren(sourceNodeId, targetNodeId, par) ==
  LET sourceAncestors == getAncestorPath(sourceNodeId, par)
      targetAncestors == getAncestorPath(targetNodeId, par)
      si == FirstCommonIndex(sourceAncestors, targetAncestors)
  IN IF si = 0 THEN NullLCA
     ELSE LET lca == sourceAncestors[si]
              ti  == IndexOf(targetAncestors, lca)
          IN [lca |-> lca,
              sourceChild |-> IF si > 1 THEN sourceAncestors[si - 1] ELSE sourceNodeId,
              targetChild |-> IF ti > 1 THEN targetAncestors[ti - 1] ELSE targetNodeId]

(***************************************************************************)
(* createGlobalTemporaryEdgesMap: the Map is a function from the keys      *)
(* that were set to the list pushed under each key.                        *)
(***************************************************************************)
\* faulty variant: the copy keeps the original endpoints
TempEdgeKeepsEndpoints(edge, r) ==
  [id |-> <<"temp", edge.id, r.lca>>, source |-> edge.source, target |-> edge.target,
   isTemporary |-> TRUE, originalSource |-> edge.source, originalTarget |-> edge.target]

TempEdge(edge, r) ==
  [id |-> <<"temp", edge.id, r.lca>>, source |-> r.sourceChild, target |-> r.targetChild,
   isTemporary |-> TRUE, originalSource |-> edge.source, originalTarget |-> edge.target]

MapPush(m, k, v) ==
  IF k \in DOMAIN m THEN [m EXCEPT ![k] = Append(@, v)]
  ELSE [j \in DOMAIN m \cup {k} |-> IF j = k THEN <<v>> ELSE m[j]]

EmptyMap == [k \in {} |-> <<>>]

RECURSIVE TempEdgesLoop(_, _, _, _)
TempEdgesLoop(edges, i, par, acc) ==
  IF i > Len(edges) THEN acc
  ELSE LET r == findLCAWithChildren(edges[i].source, edges[i].target, par)
       IN IF r.lca # None /\ r.sourceChild # None /\ r.targetChild # None
             /\ r.sourceChild # r.targetChild
            THEN TempEdgesLoop(edges, i + 1, par, MapPush(acc, r.lca, TempEdge(edges[i], r)))
            ELSE TempEdgesLoop(edges, i + 1, par, acc)

createGlobalTemporaryEdgesMap(edges, par) == TempEdgesLoop(edges, 1, par, EmptyMap)

(***************************************************************************)
(* useNodeMaps: the node list and the parent -> children index built from  *)
(* it.  Map and Set keep insertion order, so both are sequences.           *)
(***************************************************************************)
NodeOrder == <<"A", "B", "x", "y">>

IndexKeyOf(n) == IF parentOf[n] # None THEN parentOf[n] ELSE NoParentKey

RECURSIVE IndexKeysLoop(_, _)
IndexKeysLoop(i, acc) ==
  IF i > Len(NodeOrder) THEN acc
  ELSE IndexKeysLoop(i + 1, IF IndexKeyOf(NodeOrder[i]) \in Range(acc) THEN acc
                            ELSE Append(acc, IndexKeyOf(NodeOrder[i])))

\* the index may be handed in by the caller (externalNodeParentIdMapWithChildIdSet):
\* the entries of the nodes plus the entries of extraIndex
ExtraKeys == [i \in 1..Len(extraIndex) |-> extraIndex[i].key]

ExtraChildren(k) ==
  IF \E i \in 1..Len(extraIndex) : extraIndex[i].key = k
    THEN extraIndex[CHOOSE i \in 1..Len(extraIndex) : extraIndex[i].key = k].children
    ELSE <<>>

\* keys of nodeParentIdMapWithChildIdSet, in insertion order
IndexKeys ==
  LET own == IndexKeysLoop(1, <<>>)
  IN own \o SelectSeq(ExtraKeys, LAMBDA k : k \notin Range(own))

IndexHas(k) == k \in Range(IndexKeys)

\* nodeParentIdMapWithChildIdSet.get(k), in insertion order (<<>> when the key is absent)
\* an index in which node y is also listed in the child set of every other container
ChildIdSetInEveryContainer(k) ==
  LET own == SelectSeq(NodeOrder, LAMBDA n : IndexKeyOf(n) = k) \o ExtraChildren(k)
  IN IF k = NoParentKey \/ k = "y" \/ "y" \in Range(own) THEN own ELSE own \o <<"y">>

ChildIdSet(k) == SelectSeq(NodeOrder, LAMBDA n : IndexKeyOf(n) = k) \o ExtraChildren(k)

(***************************************************************************)
(* buildNodeTree.  The forest is flattened in preorder: one entry per tree *)
(* node with its depth and its tree parent (None for a root).              *)
(***************************************************************************)
RECURSIVE BuildTreeRecursively(_, _, _, _)
RECURSIVE BuildTreeChildren(_, _, _, _, _)

BuildTreeRecursively(nodeId, currentDepth, treeParent, processedNodes) ==
  IF nodeId \in processedNodes \/ ~IndexHas(nodeId) \/ nodeId \notin DOMAIN parentOf
    THEN [ok |-> FALSE, entries |-> <<>>, processed |-> processedNodes]
    ELSE LET sub == BuildTreeChildren(ChildIdSet(nodeId), 1, nodeId, currentDepth + 1,
                                      processedNodes \cup {nodeId})
         IN [ok |-> TRUE,
             entries |-> <<[id |-> nodeId, depth |-> currentDepth, parent |-> treeParent]>> \o sub.entries,
             processed |-> sub.processed]

\* the child loop handing its children a depth that is one too large
RECURSIVE BuildTreeChildrenDeeper(_, _, _, _, _)
BuildTreeChildrenDeeper(childIds, i, nodeId, depth, processedNodes) ==
  IF i > Len(childIds) THEN [entries |-> <<>>, processed |-> processedNodes]
  ELSE LET r == IF IndexHas(childIds[i]) /\ childIds[i] \in DOMAIN parentOf
                  THEN BuildTreeRecursively(childIds[i], depth + 1, nodeId, processedNodes)
                  ELSE [ok |-> FALSE, entries |-> <<>>, processed |-> processedNodes]
           rest == BuildTreeChildrenDeeper(childIds, i + 1, nodeId, depth, r.processed)
       IN [entries |-> r.entries \o rest.entries, processed |-> rest.processed]

BuildTreeChildren(childIds, i, nodeId, depth, processedNodes) ==
  IF i > Len(childIds) THEN [entries |-> <<>>, processed |-> processedNodes]
  ELSE LET r == IF IndexHas(childIds[i]) /\ childIds[i] \in DOMAIN parentOf
                  THEN BuildTreeRecursively(childIds[i], depth, nodeId, processedNodes)
                  ELSE [ok |-> FALSE, entries |-> <<>>, processed |-> processedNodes]
           rest == BuildTreeChildren(childIds, i + 1, nodeId, depth, r.processed)
       IN [entries |-> r.entries \o rest.entries, processed |-> rest.processed]

\* the root loop starting a tree at every index key that has a node
RECURSIVE BuildRootsEveryKey(_, _)
BuildRootsEveryKey(i, processedNodes) ==
  IF i > Len(IndexKeys) THEN <<>>
  ELSE LET id == IndexKeys[i] IN
       IF id \in DOMAIN parentOf
         THEN LET r == BuildTreeRecursively(id, 0, None, processedNodes)
              IN r.entries \o BuildRootsEveryKey(i + 1, r.processed)
         ELSE BuildRootsEveryKey(i + 1, processedNodes)

RECURSIVE BuildRoots(_, _)
BuildRoots(i, processedNodes) ==
  IF i > Len(IndexKeys) THEN <<>>
  ELSE LET id == IndexKeys[i] IN
       IF id \in DOMAIN parentOf /\ (parentOf[id] = None \/ parentOf[id] = NoParentKey)
         THEN LET r == BuildTreeRecursively(id, 0, None, processedNodes)
              IN r.entries \o BuildRoots(i + 1, r.processed)
         ELSE BuildRoots(i + 1, processedNodes)

buildNodeTree == BuildRoots(1, {})

(***************************************************************************)
(* Node and edge objects.  A list element is either the caller's object    *)
(* itself (copy = FALSE: its fields are read from nodeMap / edgeObj) or a  *)
(* copy holding its own field values.  Size 0 stands for undefined.        *)
(***************************************************************************)
DefaultNodeWidth == 172
DefaultNodeHeight == 36
Margin == 80

InitialNode(n) ==
  [pos |-> <<0, 0>>, width |-> 0, height |-> 0, mW |-> 0, mH |-> 0,
   hasStyle |-> (n = "A"), sW |-> 0, sH |-> 0, sOther |-> IF n = "A" THEN 1 ELSE 0]

NodeRef(n) ==
  [id |-> n, copy |-> FALSE, pos |-> <<0, 0>>, width |-> 0, height |-> 0, mW |-> 0, mH |-> 0,
   styleShared |-> FALSE]

\* {...node, position}: a shallow copy, the style object (when there is one) stays shared
NodeCopy(n, nm, position) ==
  [id |-> n, copy |-> TRUE, pos |-> position, width |-> nm[n].width, height |-> nm[n].height,
   mW |-> nm[n].mW, mH |-> nm[n].mH, styleShared |-> nm[n].hasStyle]

EdgeRef(k) == [id |-> k, copy |-> FALSE, source |-> None, target |-> None]

\* JSON.parse(JSON.stringify(edge))
EdgeCopy(e) == [id |-> e.id, copy |-> TRUE, source |-> e.source, target |-> e.target]

RECURSIVE SumSeq(_, _)
SumSeq(s, i) == IF i > Len(s) THEN 0 ELSE s[i] + SumSeq(s, i + 1)

(***************************************************************************)
(* calculateLayoutWithDagre, as far as the wrapper goes: hidden nodes are  *)
(* left out, an empty input gives a 0 x 0 result, every laid-out node is   *)
(* copied with a new position.  The dagre library itself is abstracted to  *)
(* a deterministic placement: x is the node's index, y the number of       *)
(* engine edges that enter it from another laid-out node; the graph size   *)
(* is the margins plus the sizes of the laid-out nodes.                    *)
(***************************************************************************)
EngineWidthOf(nm, n) == IF nm[n].hasStyle /\ nm[n].sW # 0 THEN nm[n].sW ELSE DefaultNodeWidth

EngineHeightOf(nm, n) == IF nm[n].hasStyle /\ nm[n].sH # 0 THEN nm[n].sH ELSE DefaultNodeHeight

EngineRank(n, laidOut, engineEdges) ==
  Cardinality({i \in 1..Len(engineEdges) :
                 /\ engineEdges[i].target = n
                 /\ engineEdges[i].source # n
                 /\ engineEdges[i].source \in Range(laidOut)})

calculateLayoutWithDagre(nodes, engineEdges, nm, includeHidden) ==
  LET nodesToLayout == IF includeHidden THEN nodes ELSE SelectSeq(nodes, LAMBDA n : n \notin hiddenIds)
  IN IF Len(nodesToLayout) = 0 THEN [nodes |-> <<>>, width |-> 0, height |-> 0]
     ELSE [nodes  |-> [i \in 1..Len(nodesToLayout) |->
                         NodeCopy(nodesToLayout[i], nm,
                                  <<i, EngineRank(nodesToLayout[i], nodesToLayout, engineEdges)>>)],
           width  |-> 2 * Margin + SumSeq([i \in 1..Len(nodesToLayout) |-> EngineWidthOf(nm, nodesToLayout[i])], 1),
           height |-> 2 * Margin + SumSeq([i \in 1..Len(nodesToLayout) |-> EngineHeightOf(nm, nodesToLayout[i])], 1)]

(***************************************************************************)
(* HierarchicalLayoutOrganizer.ts                                          *)
(***************************************************************************)

\* nodeIdWithNode.get(id).parentId resolved to a node: its id; otherwise the id stays
RetargetToParent(id) ==
  IF id \in DOMAIN parentOf /\ parentOf[id] # None /\ parentOf[id] \in DOMAIN parentOf
    THEN parentOf[id] ELSE id

\* the for loop of getEdgesOfNodes over the edge objects edgeIdxs[i..]; acc.eo is the
\* heap of edge objects, written in place by lines 24 and 33
RECURSIVE GetEdgesLoop(_, _, _, _)
GetEdgesLoop(nodeIdSet, edgeIdxs, i, acc) ==
  IF i > Len(edgeIdxs) THEN acc
  ELSE LET k == edgeIdxs[i]
           e == acc.eo[k]
       IN IF e.source \in nodeIdSet \/ e.target \in nodeIdSet
            THEN LET written ==
                       IF e.target \notin nodeIdSet
                         THEN [e EXCEPT !.target = RetargetToParent(e.target)]
                       ELSE IF e.source \notin nodeIdSet
                         THEN [e EXCEPT !.source = RetargetToParent(e.source)]
                       ELSE e
                 IN GetEdgesLoop(nodeIdSet, edgeIdxs, i + 1,
                                 [eo |-> [acc.eo EXCEPT ![k] = written],
                                  alteredEdges |-> Append(acc.alteredEdges, k),
                                  unalteredEdges |-> Append(acc.unalteredEdges, EdgeCopy(e))])
            ELSE GetEdgesLoop(nodeIdSet, edgeIdxs, i + 1, acc)

getEdgesOfNodes(nodeIdSet, edgeIdxs, eo) ==
  GetEdgesLoop(nodeIdSet, edgeIdxs, 1, [eo |-> eo, alteredEdges |-> <<>>, unalteredEdges |-> <<>>])

\* layoutSingleContainer without the early return of lines 177-179
LayoutSingleContainerCallNoResolveCheck(parentNodeId, nm, eo, edgeIdxs, includeHidden) ==
  LET childIdSet == ChildIdSet(parentNodeId)
      nodesToLayout == SelectSeq(childIdSet, LAMBDA n : n \in DOMAIN nm)
  IN IF ~IndexHas(parentNodeId) \/ Len(childIdSet) = 0
       THEN [early |-> TRUE, done |-> FALSE, eo |-> eo, nodes |-> <<>>, width |-> 0, height |-> 0,
             updatedEdges |-> <<>>, udpatedParentNode |-> None,
             engineNodes |-> <<>>, engineEdges |-> <<>>]
       ELSE LET ge == getEdgesOfNodes(Range(childIdSet), edgeIdxs, eo)
                alteredEdges == [i \in 1..Len(ge.alteredEdges) |-> ge.eo[ge.alteredEdges[i]]]
                layout == calculateLayoutWithDagre(nodesToLayout, alteredEdges, nm, includeHidden)
            IN [early |-> FALSE, done |-> FALSE, eo |-> ge.eo, nodes |-> layout.nodes,
                width |-> layout.width, height |-> layout.height,
                updatedEdges |-> ge.unalteredEdges,
                udpatedParentNode |-> IF parentNodeId \in DOMAIN nm THEN parentNodeId ELSE None,
                engineNodes |-> nodesToLayout, engineEdges |-> alteredEdges]

\* layoutSingleContainer up to its await: the early returns, getEdgesOfNodes and the
\* engine call.  `early` marks a return without an engine call; udpatedParentNode is
\* the id of the parent node object the call returns (None: undefined).
LayoutSingleContainerCall(parentNodeId, nm, eo, edgeIdxs, includeHidden) ==
  LET childIdSet == ChildIdSet(parentNodeId)
      nodesToLayout == SelectSeq(childIdSet, LAMBDA n : n \in DOMAIN nm)
  IN IF ~IndexHas(parentNodeId) \/ Len(childIdSet) = 0 \/ Len(nodesToLayout) = 0
       THEN [early |-> TRUE, done |-> FALSE, eo |-> eo, nodes |-> <<>>, width |-> 0, height |-> 0,
             updatedEdges |-> <<>>, udpatedParentNode |-> None,
             engineNodes |-> <<>>, engineEdges |-> <<>>]
       ELSE LET ge == getEdgesOfNodes(Range(childIdSet), edgeIdxs, eo)
                alteredEdges == [i \in 1..Len(ge.alteredEdges) |-> ge.eo[ge.alteredEdges[i]]]
                layout == calculateLayoutWithDagre(nodesToLayout, alteredEdges, nm, includeHidden)
            IN [early |-> FALSE, done |-> FALSE, eo |-> ge.eo, nodes |-> layout.nodes,
                width |-> layout.width, height |-> layout.height,
                updatedEdges |-> ge.unalteredEdges,
                udpatedParentNode |-> IF parentNodeId \in DOMAIN nm THEN parentNodeId ELSE None,
                engineNodes |-> nodesToLayout, engineEdges |-> alteredEdges]

\* fixParentNodeDimensions replacing the style object instead of writing into it
fixParentNodeDimensionsNewStyle(node, width, height) ==
  [node EXCEPT !.hasStyle = TRUE, !.width = width, !.height = height,
               !.mW = width, !.mH = height, !.sW = width, !.sH = height, !.sOther = 0]

fixParentNodeDimensions(node, width, height) ==
  [node EXCEPT !.hasStyle = TRUE, !.width = width, !.height = height,
               !.mW = width, !.mH = height, !.sW = width, !.sH = height]

\* layoutSingleContainer after its await: lines 208-210 on the shared node map
LayoutSingleContainerResume(parentNodeId, r, nm) ==
  IF ~r.early /\ parentNodeId \in DOMAIN nm /\ r.width # 0 /\ r.height # 0
    THEN [nm EXCEPT ![parentNodeId] = fixParentNodeDimensions(@, r.width, r.height)]
    ELSE nm

(***************************************************************************)
(* filterSelectedParentNodes.ts.  The selection is the list of the         *)
(* selected nodes' ids; parentIdWithNodes is the parent -> children index. *)
(***************************************************************************)
\* Array.from(new Set(list)): first occurrences, in order
RECURSIVE Dedupe(_, _, _)
Dedupe(s, i, acc) ==
  IF i > Len(s) THEN acc
  ELSE Dedupe(s, i + 1, IF s[i] \in Range(acc) THEN acc ELSE Append(acc, s[i]))

filterSelectedParentNodes(selectedNodeIds) ==
  IF Len(selectedNodeIds) = 0 THEN <<>>
  ELSE
    LET known == SelectSeq(selectedNodeIds, LAMBDA n : n \in DOMAIN parentOf /\ parentOf[n] # None)
        parentIdsOfSelection == [i \in 1..Len(known) |-> parentOf[known[i]]]
        effectiveSelectedIds == Dedupe(selectedNodeIds \o parentIdsOfSelection, 1, <<>>)
        parentNodeIds == SelectSeq(effectiveSelectedIds, IndexHas)
        filteredParentIds ==
          SelectSeq(parentNodeIds,
                    LAMBDA id : \/ id \notin DOMAIN parentOf
                                \/ parentOf[id] = None
                                \/ parentOf[id] \notin Range(parentNodeIds))
    IN IF Len(parentNodeIds) = 0 THEN <<"no-parent">>
       ELSE IF "no-parent" \in Range(filteredParentIds) THEN filteredParentIds
       ELSE <<"no-parent">> \o filteredParentIds

(***************************************************************************)
(* Pure-function specification: a hierarchy is drawn, then the tree        *)
(* utilities are called on it with every argument of the bounded sets.     *)
(***************************************************************************)
MaxFnEdges == 2

\* parentId choices per node: forests of depth up to 3, a self-parent (y),
\* a 2-cycle (A, B) and a 3-cycle (A, x, B) are all among them
Hierarchies ==
  {h \in [Ids -> Ids \cup {None}] :
      /\ h["A"] \in {None, "B", "x"}
      /\ h["B"] \in {None, "A"}
      /\ h["x"] \in {None, "A", "B"}
      /\ h["y"] \in {None, "A", "B", "x", "y"}}

EndpointIds == Ids \cup {Ghost}

FnEdge(i, s, t) == [id |-> i, source |-> s, target |-> t]

RECURSIVE FnEdgeLists(_)
FnEdgeLists(n) ==
  IF n = 0 THEN {<<>>}
  ELSE LET shorter == FnEdgeLists(n - 1) IN
       shorter \cup {Append(es, FnEdge(n, s, t)) : es \in {l \in shorter : Len(l) = n - 1},
                                                  s \in EndpointIds, t \in EndpointIds}

\* index entries beyond those of the nodes: none, an empty child set for y, or a
\* child set for y whose only id resolves to no node
ExtraIndexChoices ==
  {<<>>, <<[key |-> "y", children |-> <<>>]>>, <<[key |-> "y", children |-> <<Ghost>>]>>}

\* selections handed to filterSelectedParentNodes: up to two distinct ids
FnSelections ==
  {<<>>} \cup {<<a>> : a \in EndpointIds}
         \cup {<<p[1], p[2]>> : p \in {q \in EndpointIds \X EndpointIds : q[1] # q[2]}}

FnIdle == [op |-> "none", src |-> None, tgt |-> None, path |-> <<>>, res |-> NullLCA,
           edges |-> <<>>, temp |-> EmptyMap, sel |-> <<>>, filtered |-> <<>>, tree |-> <<>>,
           twice |-> <<>>, nmBefore |-> <<>>, nmAfter |-> <<>>]

FnInit ==
  /\ parentOf \in Hierarchies
  /\ fnOut = FnIdle
  /\ hiddenIds = {}
  /\ layoutHidden = FALSE
  /\ selection = <<>>
  /\ failAt = None
  /\ inputEdges = <<>>
  /\ extraIndex \in ExtraIndexChoices
  /\ EnginesIdle
  /\ AutoIdle
  /\ engineCalls = {}
  /\ nodeMap = [n \in DOMAIN parentOf |-> InitialNode(n)]
  /\ edgeObj = inputEdges
  /\ phase = "idle"
  /\ levels = <<>>
  /\ inflight = <<>>
  /\ levelOrder = <<>>
  /\ walks = <<>>
  /\ allUpdatedNodes = <<>>
  /\ allUpdatedEdges = <<>>
  /\ started = {}
  /\ finished = {}
  /\ calcResult = [made |-> FALSE, nodes |-> <<>>, edges |-> <<>>]
  /\ committed = [made |-> FALSE, nodes |-> <<>>, edges |-> <<>>]
  /\ returned = [made |-> FALSE, nodes |-> <<>>, edges |-> <<>>]
  /\ OpsIdle

CallGetAncestorPath ==
  /\ fnOut.op = "none"
  /\ extraIndex = <<>>
  /\ \E n \in EndpointIds :
    /\ fnOut' = [FnIdle EXCEPT !.op = "path", !.src = n, !.path = getAncestorPath(n, parentOf)]
    /\ UNCHANGED <<inputVars, autoVars, pipeVars, opsVars>>

CallFindLCA ==
  /\ fnOut.op = "none"
  /\ extraIndex = <<>>
  /\ \E s \in EndpointIds, t \in EndpointIds :
    /\ fnOut' = [FnIdle EXCEPT !.op = "lca", !.src = s, !.tgt = t,
                               !.res = findLCAWithChildren(s, t, parentOf)]
    /\ UNCHANGED <<inputVars, autoVars, pipeVars, opsVars>>

CallCreateTempEdges ==
  /\ fnOut.op = "none"
  /\ extraIndex = <<>>
  /\ \E es \in FnEdgeLists(MaxFnEdges) :
    /\ fnOut' = [FnIdle EXCEPT !.op = "temp", !.edges = es,
                               !.temp = createGlobalTemporaryEdgesMap(es, parentOf)]
    /\ UNCHANGED <<inputVars, autoVars, pipeVars, opsVars>>

CallFilterSelectedParentNodes ==
  /\ fnOut.op = "none"
  /\ \E sel \in FnSelections :
    /\ fnOut' = [FnIdle EXCEPT !.op = "filter", !.sel = sel,
                               !.filtered = filterSelectedParentNodes(sel)]
    /\ UNCHANGED <<inputVars, autoVars, pipeVars, opsVars>>

CallBuildNodeTree ==
  /\ fnOut.op = "none"
  /\ fnOut' = [FnIdle EXCEPT !.op = "tree", !.tree = buildNodeTree]
  /\ UNCHANGED <<inputVars, autoVars, pipeVars, opsVars>>

MaxStepEdges == 1

\* containers handed to layoutSingleContainer: every node id and the sentinel
ContainerIds == Ids \cup {NoParentKey}

\* layoutSingleContainer (lines 151-217) run to completion twice in a row for one
\* container, on the same node map, index and edge objects
CallLayoutSingleContainerTwice ==
  /\ fnOut.op = "none"
  /\ \E c \in ContainerIds, es \in FnEdgeLists(MaxStepEdges) :
       LET idxs   == [k \in 1..Len(es) |-> k]
           first  == LayoutSingleContainerCall(c, nodeMap, es, idxs, FALSE)
           nm1    == LayoutSingleContainerResume(c, first, nodeMap)
           second == LayoutSingleContainerCall(c, nm1, first.eo, idxs, FALSE)
       IN fnOut' = [FnIdle EXCEPT !.op = "twice", !.src = c, !.edges = es,
                                  !.twice = <<first, second>>,
                                  !.nmBefore = nodeMap, !.nmAfter = nm1]
  /\ UNCHANGED <<inputVars, autoVars, pipeVars, opsVars>>

FnNext ==
  \/ CallBuildNodeTree
  \/ CallGetAncestorPath
  \/ CallFindLCA
  \/ CallCreateTempEdges
  \/ CallFilterSelectedParentNodes

SpecFn == FnInit /\ [][FnNext]_vars

\* the single-container step called directly, on every hierarchy and index
StepNext == CallLayoutSingleContainerTwice

SpecStep == FnInit /\ [][StepNext]_vars

\* useLayoutCalculation.ts line 136: the engine calculateLayout looks up for the
\* selected algorithm (the built-in one when the name is not registered)
LookedUpEngine == IF algorithm \in layoutEngines THEN algorithm ELSE "dagre"

\* useLayoutCalculation.ts lines 83 and 211: the LayoutAlgorithm argument handed to
\* organizeLayoutRecursively / organizeLayoutByTreeDepth is the literal `undefined`
LayoutAlgorithmArgument == None

\* HierarchicalLayoutOrganizer.ts lines 82, 162, 271: `LayoutAlgorithm = calculateLayoutWithDagre`,
\* the default of the parameter applies when the argument is undefined
LayoutAlgorithm == IF LayoutAlgorithmArgument = None THEN "dagre" ELSE LayoutAlgorithmArgument

\* layoutSingleContainer line 196: the calls that got past the early returns invoke LayoutAlgorithm
EngineCallsOf(ids, results) ==
  {<<ids[i], LayoutAlgorithm>> : i \in {j \in 1..Len(ids) : ~results[j].early}}

\* the sequential calls of `ids.map(id => layoutSingleContainer(id, ...))`: each call
\* runs up to its await before the next one starts, on the edge objects the previous left
RECURSIVE StartCalls(_, _, _, _, _, _)
StartCalls(ids, i, nm, eo, edgeIdxs, acc) ==
  IF i > Len(ids) THEN [eo |-> eo, results |-> acc]
  ELSE LET r == LayoutSingleContainerCall(ids[i], nm, eo, edgeIdxs, layoutHidden)
       IN StartCalls(ids, i + 1, nm, r.eo, edgeIdxs, Append(acc, r))

\* collectNodesByDepth: the ids at one depth, in preorder
NodesByDepth(tree, depth) ==
  LET at == SelectSeq(tree, LAMBDA t : t.depth = depth)
  IN [i \in 1..Len(at) |-> at[i].id]

MaxDepthOf(tree) ==
  IF Len(tree) = 0 THEN 0
  ELSE CHOOSE d \in {tree[i].depth : i \in 1..Len(tree)} : \A i \in 1..Len(tree) : tree[i].depth <= d

\* faulty variant: the loop runs from depth 0 up to maxDepth
LevelsShallowFirst(tree) ==
  LET maxDepth == MaxDepthOf(tree)
  IN [i \in 1..(maxDepth + 2) |->
        IF i = maxDepth + 2 THEN <<NoParentKey>> ELSE NodesByDepth(tree, i - 1)]

\* the levels without the final pass over the sentinel
LevelsWithoutSentinel(tree) ==
  LET maxDepth == MaxDepthOf(tree)
  IN [i \in 1..(maxDepth + 1) |-> NodesByDepth(tree, maxDepth + 1 - i)]

\* the order of organizeLayoutByTreeDepth: depth maxDepth down to 0, then the sentinel
LevelsOf(tree) ==
  LET maxDepth == MaxDepthOf(tree)
  IN [i \in 1..(maxDepth + 2) |->
        IF i = maxDepth + 2 THEN <<NoParentKey>> ELSE NodesByDepth(tree, maxDepth + 1 - i)]

\* filterVisibleNodesAndEdges / the filters at the head of calculateLayout
VisibleNodeIds == IF layoutHidden THEN NodeOrder ELSE SelectSeq(NodeOrder, LAMBDA n : n \notin hiddenIds)

AllEdgeIdxs == [k \in 1..Len(inputEdges) |-> k]

VisibleEdgeIdxs ==
  IF layoutHidden THEN AllEdgeIdxs
  ELSE SelectSeq(AllEdgeIdxs, LAMBDA k : /\ inputEdges[k].source \in Range(VisibleNodeIds)
                                         /\ inputEdges[k].target \in Range(VisibleNodeIds))

FirstWithId(s, id) == s[CHOOSE i \in 1..Len(s) : s[i].id = id /\ \A j \in 1..(i - 1) : s[j].id # id]

LastWithId(s, id) == s[CHOOSE i \in 1..Len(s) : s[i].id = id /\ \A j \in (i + 1)..Len(s) : s[j].id # id]

HasId(s, id) == \E i \in 1..Len(s) : s[i].id = id

\* the tail of calculateLayout: hidden nodes and nodes without an update pass through
CalculateLayoutReturn(updatedNodes, updatedEdges) ==
  [nodes |-> [i \in 1..Len(VisibleNodeIds) |->
                LET n == VisibleNodeIds[i] IN
                IF ~layoutHidden /\ n \in hiddenIds THEN NodeRef(n)
                ELSE IF HasId(updatedNodes, n) THEN FirstWithId(updatedNodes, n) ELSE NodeRef(n)],
   edges |-> updatedEdges]

RECURSIVE MergeLevelNodes(_, _, _)
MergeLevelNodes(results, i, acc) ==
  IF i > Len(results) THEN acc ELSE MergeLevelNodes(results, i + 1, results[i].nodes \o acc)

RECURSIVE MergeLevelEdges(_, _, _)
MergeLevelEdges(results, i, acc) ==
  IF i > Len(results) THEN acc ELSE MergeLevelEdges(results, i + 1, results[i].updatedEdges \o acc)

RECURSIVE ConcatWalkNodes(_, _)
ConcatWalkNodes(ws, i) == IF i > Len(ws) THEN <<>> ELSE ws[i].nodes \o ConcatWalkNodes(ws, i + 1)

RECURSIVE ConcatWalkEdges(_, _)
ConcatWalkEdges(ws, i) == IF i > Len(ws) THEN <<>> ELSE ws[i].edges \o ConcatWalkEdges(ws, i + 1)

\* the tail of processSelectedNodes: the two Maps (last set wins) merged over the inputs
ProcessSelectedReturn(ws) ==
  LET un == ConcatWalkNodes(ws, 1)
      ue == ConcatWalkEdges(ws, 1)
  IN [nodes |-> [i \in 1..Len(VisibleNodeIds) |->
                   IF HasId(un, VisibleNodeIds[i]) THEN LastWithId(un, VisibleNodeIds[i])
                   ELSE NodeRef(VisibleNodeIds[i])],
      edges |-> [i \in 1..Len(VisibleEdgeIdxs) |->
                   IF HasId(ue, VisibleEdgeIdxs[i]) THEN LastWithId(ue, VisibleEdgeIdxs[i])
                   ELSE EdgeRef(VisibleEdgeIdxs[i])]]

(***************************************************************************)
(* One layout request: applyLayout -> calculateLayout -> the orchestrator  *)
(* -> commit.  Every action runs from one suspension point to the next.    *)
(***************************************************************************)
MaxWalkSteps == 5

\* the hierarchies of a request: forests of depth up to 3 and those with the
\* 2-cycle (A, B)
PipelineHierarchies == {h \in Hierarchies : h["y"] # "y" /\ h["A"] # "x"}

HiddenChoices == {<<{}, FALSE>>, <<{"x"}, FALSE>>, <<{"x"}, TRUE>>, <<{"A"}, FALSE>>}

Selections == {<<>>, <<"x">>, <<"y">>, <<"A">>, <<"x", "y">>, <<"A", "B">>}

EdgeInputs ==
  {<<>>,
   <<FnEdge(1, "x", "y")>>,
   <<FnEdge(1, "y", "x")>>,
   <<FnEdge(1, "x", "y"), FnEdge(2, "y", "B")>>,
   <<FnEdge(1, "x", Ghost)>>}

FailChoices == {None, "A", NoParentKey}

NoResult == [made |-> FALSE, nodes |-> <<>>, edges |-> <<>>]

PipeIdle ==
  /\ nodeMap = [n \in DOMAIN parentOf |-> InitialNode(n)]
  /\ edgeObj = inputEdges
  /\ phase = "idle"
  /\ levels = <<>>
  /\ inflight = <<>>
  /\ levelOrder = <<>>
  /\ walks = <<>>
  /\ allUpdatedNodes = <<>>
  /\ allUpdatedEdges = <<>>
  /\ started = {}
  /\ finished = {}
  /\ engineCalls = {}
  /\ calcResult = NoResult
  /\ committed = NoResult
  /\ returned = NoResult

Init ==
  /\ parentOf \in PipelineHierarchies
  /\ \E hc \in HiddenChoices : hiddenIds = hc[1] /\ layoutHidden = hc[2]
  /\ selection \in Selections
  /\ failAt \in FailChoices
  /\ inputEdges \in EdgeInputs
  /\ extraIndex \in ExtraIndexChoices
  /\ EnginesIdle
  /\ AutoIdle
  /\ fnOut = FnIdle
  /\ PipeIdle
  /\ OpsIdle

\* applyLayout lines 136-159 and calculateLayout lines 136-199: the request is set up
ApplyLayoutBegin ==
  /\ phase = "idle"
  /\ phase' = IF Len(selection) > 0 THEN "selStart" ELSE "fullStart"
  /\ levels' = IF Len(selection) > 0 THEN <<>> ELSE LevelsOf(buildNodeTree)
  /\ UNCHANGED <<nodeMap, edgeObj, inflight, levelOrder, walks, allUpdatedNodes, allUpdatedEdges,
                 started, finished, calcResult, committed, returned>>
  /\ UNCHANGED <<engineCalls, fnVars, inputVars, autoVars, opsVars>>

\* organizeLayoutByTreeDepth lines 303-322 / 332-345: the calls of one level are issued
StartLevel ==
  /\ phase = "fullStart"
  /\ levels # <<>>
  /\ LET sc == StartCalls(Head(levels), 1, nodeMap, edgeObj, VisibleEdgeIdxs, <<>>)
     IN /\ edgeObj' = sc.eo
        /\ inflight' = sc.results
        /\ engineCalls' = engineCalls \cup EngineCallsOf(Head(levels), sc.results)
  /\ levelOrder' = Head(levels)
  /\ levels' = Tail(levels)
  /\ started' = started \cup Range(Head(levels))
  /\ phase' = "fullWait"
  /\ UNCHANGED <<nodeMap, walks, allUpdatedNodes, allUpdatedEdges, finished, calcResult,
                 committed, returned>>
  /\ UNCHANGED <<fnVars, inputVars, autoVars, opsVars>>

\* one pending layoutSingleContainer call of the level resumes after its await
\* (lines 208-216), or its engine call rejects
FinishContainer ==
  \E i \in 1..Len(inflight) :
    /\ phase \in {"fullWait", "calcFailed", "failed"}
    /\ ~inflight[i].done
    /\ inflight' = [inflight EXCEPT ![i].done = TRUE]
    /\ IF failAt = levelOrder[i] /\ ~inflight[i].early
         THEN /\ phase' = IF phase = "fullWait" THEN "calcFailed" ELSE phase
              /\ UNCHANGED <<nodeMap, finished>>
         ELSE /\ nodeMap' = LayoutSingleContainerResume(levelOrder[i], inflight[i], nodeMap)
              /\ finished' = finished \cup {levelOrder[i]}
              /\ UNCHANGED phase
    /\ UNCHANGED <<edgeObj, levels, levelOrder, walks, allUpdatedNodes, allUpdatedEdges, started,
                   calcResult, committed, returned>>
    /\ UNCHANGED <<engineCalls, fnVars, inputVars, autoVars, opsVars>>

\* Promise.all of the level resolved: lines 324-328 / 347-354, and after the sentinel
\* the return through calculateLayout lines 216-232
MergeLevel ==
  /\ phase = "fullWait"
  /\ \A i \in 1..Len(inflight) : inflight[i].done
  /\ allUpdatedNodes' = MergeLevelNodes(inflight, 1, allUpdatedNodes)
  /\ allUpdatedEdges' = MergeLevelEdges(inflight, 1, allUpdatedEdges)
  /\ inflight' = <<>>
  /\ levelOrder' = <<>>
  /\ IF levels = <<>>
       THEN /\ calcResult' = [made |-> TRUE] @@ CalculateLayoutReturn(allUpdatedNodes', allUpdatedEdges')
            /\ phase' = "calcDone"
       ELSE /\ phase' = "fullStart"
            /\ UNCHANGED calcResult
  /\ UNCHANGED <<nodeMap, edgeObj, levels, walks, started, finished, committed, returned>>
  /\ UNCHANGED <<engineCalls, fnVars, inputVars, autoVars, opsVars>>

NewWalk(parentId, call) ==
  [cur |-> parentId, state |-> "wait", pending |-> call, nodes |-> <<>>, edges |-> <<>>,
   visited |-> <<parentId>>]

\* calculateLayout lines 165-188 and processSelectedNodes lines 48-87: the selection
\* filter, then one organizeLayoutRecursively run per filtered container id
StartWalks ==
  /\ phase = "selStart"
  /\ LET filteredSelected == IF layoutHidden THEN selection
                             ELSE SelectSeq(selection, LAMBDA n : n \notin hiddenIds)
         filteredParentIds == filterSelectedParentNodes(filteredSelected)
         sc == StartCalls(filteredParentIds, 1, nodeMap, edgeObj, VisibleEdgeIdxs, <<>>)
     IN /\ walks' = [w \in 1..Len(filteredParentIds) |-> NewWalk(filteredParentIds[w], sc.results[w])]
        /\ edgeObj' = sc.eo
        /\ started' = started \cup Range(filteredParentIds)
        /\ engineCalls' = engineCalls \cup EngineCallsOf(filteredParentIds, sc.results)
  /\ phase' = "selWait"
  /\ UNCHANGED <<nodeMap, levels, inflight, levelOrder, allUpdatedNodes, allUpdatedEdges, finished,
                 calcResult, committed, returned>>
  /\ UNCHANGED <<fnVars, inputVars, autoVars, opsVars>>

\* organizeLayoutRecursively after the await of line 88: the container's step resumes
\* (or its engine call rejects), then lines 103-122: the run returns at the sentinel or
\* calls the step of the parent container
WalkStep ==
  \E w \in 1..Len(walks) :
    /\ phase \in {"selWait", "calcFailed", "failed"}
    /\ walks[w].state = "wait"
    /\ LET wk == walks[w]
           c  == wk.cur
           r  == wk.pending
           nm == LayoutSingleContainerResume(c, r, nodeMap)
           upward == IF c \in DOMAIN parentOf /\ parentOf[c] # None THEN parentOf[c] ELSE NoParentKey
           call == LayoutSingleContainerCall(upward, nm, edgeObj, VisibleEdgeIdxs, layoutHidden)
       IN IF failAt = c /\ ~r.early
            THEN /\ walks' = [walks EXCEPT ![w].state = "failed"]
                 /\ phase' = IF phase = "selWait" THEN "calcFailed" ELSE phase
                 /\ UNCHANGED <<nodeMap, edgeObj, started, finished, engineCalls>>
          ELSE IF c \notin DOMAIN nodeMap
            THEN /\ walks' = [walks EXCEPT ![w] = [wk EXCEPT !.state = "done",
                                                             !.nodes = r.nodes \o wk.nodes,
                                                             !.edges = r.updatedEdges \o wk.edges]]
                 /\ finished' = finished \cup {c}
                 /\ UNCHANGED <<nodeMap, edgeObj, started, phase, engineCalls>>
          ELSE /\ Len(wk.visited) < MaxWalkSteps
               /\ walks' = [walks EXCEPT ![w] = [wk EXCEPT !.cur = upward,
                                                           !.pending = call,
                                                           !.nodes = r.nodes \o wk.nodes,
                                                           !.edges = r.updatedEdges \o wk.edges,
                                                           !.visited = Append(wk.visited, upward)]]
               /\ nodeMap' = nm
               /\ edgeObj' = call.eo
               /\ started' = started \cup {upward}
               /\ engineCalls' = engineCalls \cup EngineCallsOf(<<upward>>, <<call>>)
               /\ finished' = finished \cup {c}
               /\ UNCHANGED phase
    /\ UNCHANGED <<levels, inflight, levelOrder, allUpdatedNodes, allUpdatedEdges, calcResult,
                   committed, returned>>
    /\ UNCHANGED <<fnVars, inputVars, autoVars, opsVars>>

\* Promise.all of the runs resolved: processSelectedNodes lines 89-105 and
\* calculateLayout lines 190-191, 220-232
FinishSelective ==
  /\ phase = "selWait"
  /\ \A w \in 1..Len(walks) : walks[w].state = "done"
  /\ LET sel == ProcessSelectedReturn(walks)
     IN calcResult' = [made |-> TRUE] @@ CalculateLayoutReturn(sel.nodes, sel.edges)
  /\ phase' = "calcDone"
  /\ UNCHANGED <<nodeMap, edgeObj, levels, inflight, levelOrder, walks, allUpdatedNodes,
                 allUpdatedEdges, started, finished, committed, returned>>
  /\ UNCHANGED <<engineCalls, fnVars, inputVars, autoVars, opsVars>>

\* applyLayout lines 161-190: the result is committed to the host and returned
ApplyLayoutCommit ==
  /\ phase = "calcDone"
  /\ committed' = calcResult
  /\ returned' = calcResult
  /\ phase' = "done"
  /\ UNCHANGED <<nodeMap, edgeObj, levels, inflight, levelOrder, walks, allUpdatedNodes,
                 allUpdatedEdges, started, finished, calcResult>>
  /\ UNCHANGED <<engineCalls, fnVars, inputVars, autoVars, opsVars>>

\* applyLayout lines 191-195: the computation threw, the inputs are returned
ApplyLayoutCatch ==
  /\ phase = "calcFailed"
  /\ returned' = [made |-> TRUE,
                  nodes |-> [i \in 1..Len(NodeOrder) |-> NodeRef(NodeOrder[i])],
                  edges |-> [k \in 1..Len(inputEdges) |-> EdgeRef(k)]]
  /\ phase' = "failed"
  /\ UNCHANGED <<nodeMap, edgeObj, levels, inflight, levelOrder, walks, allUpdatedNodes,
                 allUpdatedEdges, started, finished, calcResult, committed>>
  /\ UNCHANGED <<engineCalls, fnVars, inputVars, autoVars, opsVars>>

Next ==
  \/ ApplyLayoutBegin
  \/ StartLevel
  \/ FinishContainer
  \/ MergeLevel
  \/ StartWalks
  \/ WalkStep
  \/ FinishSelective
  \/ ApplyLayoutCommit
  \/ ApplyLayoutCatch

Spec == Init /\ [][Next]_vars

(***************************************************************************)
(* Engine registry: requests made after engines were registered / selected  *)
(***************************************************************************)

EngineNames == {"dagre", "custom"}

EnginesInit ==
  /\ parentOf \in PipelineHierarchies
  /\ hiddenIds = {}
  /\ layoutHidden = FALSE
  /\ selection \in Selections
  /\ failAt \in FailChoices
  /\ inputEdges = <<>>
  /\ extraIndex = <<>>
  /\ EnginesIdle
  /\ AutoIdle
  /\ fnOut = FnIdle
  /\ PipeIdle
  /\ OpsIdle

\* LayoutProvider.tsx lines 498-500: registerLayoutEngine(name, engine)
RegisterLayoutEngine ==
  \E name \in EngineNames :
    /\ phase = "idle"
    /\ layoutEngines' = layoutEngines \cup {name}
    /\ UNCHANGED <<parentOf, hiddenIds, layoutHidden, selection, failAt, inputEdges, extraIndex,
                   algorithm>>
    /\ UNCHANGED <<fnVars, pipeVars, opsVars, autoVars>>

\* LayoutProvider.tsx lines 424, 654: setAlgorithm(name)
SetAlgorithm ==
  \E name \in EngineNames :
    /\ phase = "idle"
    /\ algorithm' = name
    /\ UNCHANGED <<parentOf, hiddenIds, layoutHidden, selection, failAt, inputEdges, extraIndex,
                   layoutEngines>>
    /\ UNCHANGED <<fnVars, pipeVars, opsVars, autoVars>>

EnginesNext ==
  \/ RegisterLayoutEngine
  \/ SetAlgorithm
  \/ Next

SpecEngines == EnginesInit /\ [][EnginesNext]_vars

(***************************************************************************)
(* useLayoutOperations.applyLayout called several times, the calls         *)
(* overlapping: every call aborts the controller of the call before it.    *)
(* The computation between the call and its continuation is left abstract: *)
(* it resolves to a layout of the filtered lists, or it throws.            *)
(***************************************************************************)
OpsNodeLists == {<<>>, <<"A">>, <<"A", "x">>}

OpsEdgeLists == {<<>>, <<FnEdge(1, "A", "x")>>}

\* filterVisibleNodesAndEdges(nodes, edges, layoutHidden)
filterVisibleNodesAndEdges(nodes, edges, showHidden) ==
  IF showHidden THEN [nodes |-> nodes, edges |-> edges]
  ELSE LET visibleNodes == SelectSeq(nodes, LAMBDA n : n \notin hiddenIds)
       IN [nodes |-> visibleNodes,
           edges |-> SelectSeq(edges, LAMBDA e : /\ e.source \in Range(visibleNodes)
                                                 /\ e.target \in Range(visibleNodes))]

\* { nodes: nodesData, edges: edgesData }: the very lists the call works on
GivenLists(c) == [kind |-> "given", nodes |-> c.nodesData, edges |-> c.edgesData]

\* the object calculateLayout resolves to: new lists over the filtered input
ResultLists(c) ==
  LET f == filterVisibleNodesAndEdges(c.nodesData, c.edgesData, layoutHidden)
  IN [kind |-> "result", nodes |-> f.nodes, edges |-> f.edges]

\* faulty variant: the abort check after the await is missing
\* applyLayout committing whenever its computation resolved
ApplyLayoutAfterAwaitAlwaysCommits(k, threw, cur, ab) ==
  [commit |-> ~threw,
   ret    |-> IF threw \/ k \in ab THEN GivenLists(calls[k]) ELSE ResultLists(calls[k]),
   reset  |-> cur = k]

ApplyLayoutAfterAwaitNoAbortCheck(k, threw, cur, ab) ==
  [commit |-> ~threw /\ cur = k,
   ret    |-> IF threw THEN GivenLists(calls[k]) ELSE ResultLists(calls[k]),
   reset  |-> cur = k]

\* applyLayout lines 161-200 for call k: what it commits, what it returns and whether
\* its finally block resets the flag and the controller reference
ApplyLayoutAfterAwait(k, threw, cur, ab) ==
  [commit |-> ~threw /\ k \notin ab /\ cur = k,
   ret    |-> IF threw \/ k \in ab THEN GivenLists(calls[k]) ELSE ResultLists(calls[k]),
   reset  |-> cur = k]

NoCall == [pc |-> "idle", nodesData |-> <<>>, edgesData |-> <<>>, awaited |-> FALSE,
           threw |-> FALSE, ret |-> [kind |-> "none", nodes |-> <<>>, edges |-> <<>>]]

OpsInit ==
  /\ parentOf = [n \in Ids |-> None]
  /\ \E hc \in HiddenChoices : hiddenIds = hc[1] /\ layoutHidden = hc[2]
  /\ selection = <<>>
  /\ failAt = None
  /\ inputEdges = <<>>
  /\ extraIndex = <<>>
  /\ EnginesIdle
  /\ AutoIdle
  /\ fnOut = FnIdle
  /\ PipeIdle
  /\ ctxNodes \in OpsNodeLists
  /\ ctxEdges \in OpsEdgeLists
  /\ currentRef = 0
  /\ abortedSet = {}
  /\ calls = [k \in 1..MaxCalls |-> NoCall]
  /\ commits = <<>>
  /\ layoutInProgress = FALSE

\* applyLayout lines 136-159: the call up to its await
OpsCall ==
  \E k \in 1..MaxCalls, inputNodes \in OpsNodeLists, inputEdgeList \in OpsEdgeLists :
    /\ calls[k].pc = "idle"
    /\ IF k = 1 THEN TRUE ELSE calls[k - 1].pc # "idle"
    /\ abortedSet' = IF currentRef # 0 THEN abortedSet \cup {currentRef} ELSE abortedSet
    /\ currentRef' = k
    /\ LET nodesData == IF Len(inputNodes) > 0 THEN inputNodes ELSE ctxNodes
           edgesData == IF Len(inputEdgeList) > 0 THEN inputEdgeList ELSE ctxEdges
           c == [NoCall EXCEPT !.nodesData = nodesData, !.edgesData = edgesData]
       IN IF Len(nodesData) = 0
            THEN /\ calls' = [calls EXCEPT ![k] = [c EXCEPT !.pc = "returned", !.ret = GivenLists(c)]]
                 /\ UNCHANGED layoutInProgress
            ELSE /\ calls' = [calls EXCEPT ![k] = [c EXCEPT !.pc = "awaiting", !.awaited = TRUE]]
                 /\ layoutInProgress' = TRUE
    /\ UNCHANGED <<ctxNodes, ctxEdges, commits>>
    /\ UNCHANGED <<fnVars, inputVars, autoVars, pipeVars>>

OpsContinue(k, threw) ==
  LET out == ApplyLayoutAfterAwait(k, threw, currentRef, abortedSet)
  IN /\ calls[k].pc = "awaiting"
     /\ calls' = [calls EXCEPT ![k].pc = "returned", ![k].threw = threw, ![k].ret = out.ret]
     /\ commits' = IF out.commit THEN Append(commits, [call |-> k, lists |-> out.ret]) ELSE commits
     /\ layoutInProgress' = IF out.reset THEN FALSE ELSE layoutInProgress
     /\ currentRef' = IF out.reset THEN 0 ELSE currentRef
     /\ UNCHANGED <<ctxNodes, ctxEdges, abortedSet>>
     /\ UNCHANGED <<fnVars, inputVars, autoVars, pipeVars>>

\* calculateLayout resolved: applyLayout lines 161-190 and 196-200
OpsResolve == \E k \in 1..MaxCalls : OpsContinue(k, FALSE)

\* calculateLayout threw: applyLayout lines 191-200
OpsReject == \E k \in 1..MaxCalls : OpsContinue(k, TRUE)

OpsNext ==
  \/ OpsCall
  \/ OpsResolve
  \/ OpsReject

SpecOps == OpsInit /\ [][OpsNext]_vars

(***************************************************************************)
(* LayoutProvider: the auto-layout effect and the provider's own           *)
(* applyLayout, which turns a request away while another one runs.         *)
(***************************************************************************)

Directions == {"DOWN", "RIGHT"}

SpacingValues == {50, 100}

\* the settings calculateLayout closes over (useLayoutCalculation's dependencies)
Settings == [direction |-> direction, nodeSpacing |-> nodeSpacing, layerSpacing |-> layerSpacing]

SettingsChoices == [direction : Directions, nodeSpacing : SpacingValues, layerSpacing : SpacingValues]

\* LayoutProvider.tsx line 443: pendingSpacingUpdateRef is created as null and never assigned
pendingSpacingUpdateRef == None

\* the provider is mounted: every effect runs once after the first render
AutoInit ==
  /\ parentOf = [n \in Ids |-> None]
  /\ \E hc \in HiddenChoices : hiddenIds = hc[1] /\ layoutHidden = hc[2]
  /\ selection = <<>>
  /\ failAt = None
  /\ inputEdges = <<>>
  /\ extraIndex = <<>>
  /\ EnginesIdle
  /\ fnOut = FnIdle
  /\ PipeIdle
  /\ OpsIdle
  /\ direction \in Directions
  /\ nodeSpacing \in SpacingValues
  /\ layerSpacing \in SpacingValues
  /\ autoLayout \in BOOLEAN
  /\ childrenInitialized = FALSE
  /\ flowNodes = {"A", "x"}
  /\ nodesLength = Cardinality(flowNodes)
  /\ applyingLayoutRef = FALSE
  /\ effectQueued = TRUE
  /\ running = NoRequest
  /\ applied = NoSettings

AutoFrame == UNCHANGED <<fnVars, inputVars, pipeVars, ctxNodes, ctxEdges, currentRef, abortedSet,
                         calls, commits>>

\* setDirection(d): a new value re-renders and the effect's dependency differs
SetDirection ==
  \E d \in Directions :
    /\ d # direction
    /\ direction' = d
    /\ effectQueued' = TRUE
    /\ UNCHANGED <<nodeSpacing, layerSpacing, autoLayout, childrenInitialized, nodesLength,
                   flowNodes, applyingLayoutRef, running, applied, layoutInProgress>>
    /\ AutoFrame

\* setNodeSpacing(v)
SetNodeSpacing ==
  \E v \in SpacingValues :
    /\ v # nodeSpacing
    /\ nodeSpacing' = v
    /\ effectQueued' = TRUE
    /\ UNCHANGED <<direction, layerSpacing, autoLayout, childrenInitialized, nodesLength,
                   flowNodes, applyingLayoutRef, running, applied, layoutInProgress>>
    /\ AutoFrame

\* setLayerSpacing(v)
SetLayerSpacing ==
  \E v \in SpacingValues :
    /\ v # layerSpacing
    /\ layerSpacing' = v
    /\ effectQueued' = TRUE
    /\ UNCHANGED <<direction, nodeSpacing, autoLayout, childrenInitialized, nodesLength,
                   flowNodes, applyingLayoutRef, running, applied, layoutInProgress>>
    /\ AutoFrame

\* setAutoLayout(b)
SetAutoLayout ==
  /\ autoLayout' = ~autoLayout
  /\ effectQueued' = TRUE
  /\ UNCHANGED <<direction, nodeSpacing, layerSpacing, childrenInitialized, nodesLength,
                 flowNodes, applyingLayoutRef, running, applied, layoutInProgress>>
  /\ AutoFrame

\* LayoutProvider.tsx lines 589-594: the maps are populated, initialization is marked complete
MarkChildrenInitialized ==
  /\ flowNodes # {}
  /\ ~childrenInitialized
  /\ childrenInitialized' = TRUE
  /\ effectQueued' = TRUE
  /\ UNCHANGED <<direction, nodeSpacing, layerSpacing, autoLayout, nodesLength,
                 flowNodes, applyingLayoutRef, running, applied, layoutInProgress>>
  /\ AutoFrame

\* LayoutProvider.tsx lines 435-440 (and 421, 604-627): the recorded node count follows the host's
\* list; numberOfNodes and the structure signature change with it
SyncNodesLength ==
  /\ Cardinality(flowNodes) # nodesLength
  /\ nodesLength' = Cardinality(flowNodes)
  /\ effectQueued' = TRUE
  /\ UNCHANGED <<direction, nodeSpacing, layerSpacing, autoLayout, childrenInitialized,
                 flowNodes, applyingLayoutRef, running, applied, layoutInProgress>>
  /\ AutoFrame

\* LayoutProvider.tsx lines 525-533: applyLayout() returns its input unchanged
ApplyLayoutTurnedAway == layoutInProgress \/ applyingLayoutRef \/ flowNodes = {}

\* LayoutProvider.tsx lines 596-602 and 521-541: the auto-layout effect runs and calls
\* applyLayout(), which goes as far as its await
RunAutoLayoutEffect ==
  /\ effectQueued
  /\ effectQueued' = FALSE
  /\ IF childrenInitialized /\ autoLayout /\ ~ApplyLayoutTurnedAway
       THEN /\ layoutInProgress' = TRUE
            /\ applyingLayoutRef' = TRUE
            /\ running' = [settings |-> Settings,
                           nodes |-> IF layoutHidden THEN flowNodes ELSE flowNodes \ hiddenIds]
       ELSE UNCHANGED <<layoutInProgress, applyingLayoutRef, running>>
  /\ UNCHANGED <<direction, nodeSpacing, layerSpacing, autoLayout, childrenInitialized, nodesLength,
                 flowNodes, applied>>
  /\ AutoFrame

\* LayoutProvider.tsx lines 541-575: calculateLayout settled; the result is handed to the host,
\* a pending spacing update is processed, the guards are released
LayoutSettles ==
  \E threw \in BOOLEAN :
    /\ running # NoRequest
    /\ flowNodes' = IF threw THEN flowNodes ELSE running.nodes
    /\ applied' = IF threw THEN applied ELSE running.settings
    /\ nodeSpacing' = IF ~threw /\ pendingSpacingUpdateRef # None
                        THEN pendingSpacingUpdateRef.node ELSE nodeSpacing
    /\ layerSpacing' = IF ~threw /\ pendingSpacingUpdateRef # None
                         THEN pendingSpacingUpdateRef.layer ELSE layerSpacing
    /\ layoutInProgress' = FALSE
    /\ applyingLayoutRef' = FALSE
    /\ running' = NoRequest
    /\ UNCHANGED <<direction, autoLayout, childrenInitialized, nodesLength, effectQueued>>
    /\ AutoFrame

AutoNext ==
  \/ SetDirection
  \/ SetNodeSpacing
  \/ SetLayerSpacing
  \/ SetAutoLayout
  \/ MarkChildrenInitialized
  \/ SyncNodesLength
  \/ RunAutoLayoutEffect
  \/ LayoutSettles

SpecAuto == AutoInit /\ [][AutoNext]_vars

\* React runs a queued effect and the awaited computation settles; the user's setters are not
\* obliged to happen
SpecAutoLive ==
  /\ SpecAuto
  /\ WF_vars(MarkChildrenInitialized)
  /\ WF_vars(SyncNodesLength)
  /\ WF_vars(RunAutoLayoutEffect)
  /\ WF_vars(LayoutSettles)

(***************************************************************************)
(* Reference notions of the hierarchy, defined on the parent relation      *)
(* alone (no path walking), against which the code is compared.            *)
(***************************************************************************)
ParentKeyOf(n) == IF n \in DOMAIN parentOf /\ parentOf[n] # None THEN parentOf[n] ELSE NoParentKey

RECURSIVE UpClosure(_, _)
UpClosure(S, k) ==
  IF k = 0 THEN S
  ELSE UpClosure(S \cup {parentOf[m] : m \in {z \in S \cap DOMAIN parentOf : parentOf[z] # None}}, k - 1)

\* real nodes reachable from n by one or more parentId steps
ProperAncestors(n) ==
  IF n \in DOMAIN parentOf /\ parentOf[n] # None
    THEN UpClosure({parentOf[n]}, Cardinality(DOMAIN parentOf))
    ELSE {}

Acyclic == \A n \in DOMAIN parentOf : n \notin ProperAncestors(n)

AncSelf(n) == IF n = NoParentKey THEN {NoParentKey} ELSE {n} \cup ProperAncestors(n) \cup {NoParentKey}

NearestCommonAncestor(s, t) ==
  LET common == AncSelf(s) \cap AncSelf(t)
  IN CHOOSE c \in common : \A d \in common : d \in AncSelf(c)

EntryNode(n, c) == IF n = c THEN n ELSE CHOOSE e \in AncSelf(n) \ {NoParentKey} : ParentKeyOf(e) = c

IsDirectChild(c, p) == c \in DOMAIN parentOf /\ ParentKeyOf(c) = p

(***************************************************************************)
(* Properties of the tree utilities (checked under SpecFn)                 *)
(***************************************************************************)

\* C9: for an acyclic parent relation getAncestorPath(n) returns a list that
\* starts with n, in which every following real id is the parentId of the
\* element before it, and that ends with the sentinel key.
C9_AncestorPathShape ==
  (Acyclic /\ fnOut.op = "path") =>
    LET p == fnOut.path IN
      /\ Len(p) >= 2
      /\ p[1] = fnOut.src
      /\ p[Len(p)] = NoParentKey
      /\ \A i \in 2..(Len(p) - 1) :
           /\ p[i] # NoParentKey
           /\ p[i - 1] \in DOMAIN parentOf
           /\ p[i] = parentOf[p[i - 1]]

C9_Witness ==
  /\ Acyclic
  /\ fnOut.op = "path"
  /\ fnOut.path = <<"y", "x", "B", "A", NoParentKey>>

\* C8 as stated: for every pair of node ids of an acyclic hierarchy the lca is
\* non-null and sourceChild and targetChild are both direct children of it.
C8_EntriesAreDirectChildren ==
  (Acyclic /\ fnOut.op = "lca" /\ fnOut.src \in Ids /\ fnOut.tgt \in Ids) =>
    /\ fnOut.res.lca # None
    /\ IsDirectChild(fnOut.res.sourceChild, fnOut.res.lca)
    /\ IsDirectChild(fnOut.res.targetChild, fnOut.res.lca)

\* C8 amended: the lca is non-null; an endpoint that is not itself the lca has
\* as its entry a direct child of the lca that is the endpoint or one of its
\* ancestors; an endpoint that is the lca (it is the other endpoint or an
\* ancestor of it) has itself as its entry.
EntryOk(n, entry, lca) ==
  IF n = lca THEN entry = n
  ELSE /\ IsDirectChild(entry, lca)
       /\ entry \in {n} \cup ProperAncestors(n)

C8_EntriesAmended ==
  (Acyclic /\ fnOut.op = "lca" /\ fnOut.src \in Ids /\ fnOut.tgt \in Ids) =>
    /\ fnOut.res.lca # None
    /\ fnOut.res.lca = NearestCommonAncestor(fnOut.src, fnOut.tgt)
    /\ EntryOk(fnOut.src, fnOut.res.sourceChild, fnOut.res.lca)
    /\ EntryOk(fnOut.tgt, fnOut.res.targetChild, fnOut.res.lca)

\* the source is a container two levels above the target
C8_Witness ==
  /\ Acyclic
  /\ fnOut.op = "lca"
  /\ fnOut.src = "A" /\ fnOut.tgt = "x"
  /\ fnOut.res = [lca |-> "A", sourceChild |-> "A", targetChild |-> "B"]

\* positions <<bucket key, index>> of the synthetic edges derived from input edge e
SyntheticOf(temp, e) ==
  {kj \in UNION {{<<k, j>> : j \in 1..Len(temp[k])} : k \in DOMAIN temp} :
      temp[kj[1]][kj[2]].id[2] = e.id}

\* C7: for an acyclic hierarchy every input edge whose endpoints have different
\* immediate parents yields exactly one synthetic edge, stored under the nearest
\* common ancestor of the endpoints and running between the two entry nodes;
\* with A containing B containing x, top-level y and the edge x->y, the
\* sentinel's bucket holds the one synthetic edge A->y.
C7_OneSyntheticEdgeUnderLCA ==
  (Acyclic /\ fnOut.op = "temp") =>
    /\ \A i \in 1..Len(fnOut.edges) :
         LET e == fnOut.edges[i] IN
         (e.source \in Ids /\ e.target \in Ids /\ ParentKeyOf(e.source) # ParentKeyOf(e.target)) =>
           LET hits == SyntheticOf(fnOut.temp, e)
               nca  == NearestCommonAncestor(e.source, e.target)
           IN /\ Cardinality(hits) = 1
              /\ \A kj \in hits :
                   /\ kj[1] = nca
                   /\ fnOut.temp[kj[1]][kj[2]].source = EntryNode(e.source, nca)
                   /\ fnOut.temp[kj[1]][kj[2]].target = EntryNode(e.target, nca)
    /\ (/\ parentOf = [n \in Ids |-> IF n = "B" THEN "A" ELSE IF n = "x" THEN "B" ELSE None]
        /\ fnOut.edges = <<FnEdge(1, "x", "y")>>)
       => /\ DOMAIN fnOut.temp = {NoParentKey}
          /\ Len(fnOut.temp[NoParentKey]) = 1
          /\ fnOut.temp[NoParentKey][1].source = "A"
          /\ fnOut.temp[NoParentKey][1].target = "y"

\* the example of the claim, followed by a second cross-container edge
C7_Witness ==
  /\ fnOut.op = "temp"
  /\ parentOf = [n \in Ids |-> IF n = "B" THEN "A" ELSE IF n = "x" THEN "B" ELSE None]
  /\ fnOut.edges = <<FnEdge(1, "x", "y"), FnEdge(2, "y", "B")>>
  /\ Len(fnOut.temp[NoParentKey]) = 2


(***************************************************************************)
(* Properties of a layout request (checked under Spec)                     *)
(***************************************************************************)
\* real nodes that are keys of the parent -> children index
Containers == Range(IndexKeys) \cap DOMAIN parentOf

DescendantContainers(c) == {d \in Containers : c \in ProperAncestors(d)}

TreeContainers == {buildNodeTree[i].id : i \in 1..Len(buildNodeTree)}

\* the engine lays out at least one child of d
HasLaidOutChild(d) ==
  \E n \in Range(ChildIdSet(d)) \cap DOMAIN parentOf : layoutHidden \/ n \notin hiddenIds

Completed(d) == d \in finished /\ (HasLaidOutChild(d) => nodeMap[d].width # 0 /\ nodeMap[d].height # 0)

\* C1: in full-tree mode, when the call of a container C has started, the call of
\* every container D below C has completed (D's size is written); when the call of
\* the sentinel has started, the call of every real container has completed.
C1_DeepestFirst ==
  selection = <<>> =>
    /\ \A c \in started \ {NoParentKey} : \A d \in DescendantContainers(c) : Completed(d)
    /\ NoParentKey \in started =>
         \A d \in TreeContainers \cup (started \ {NoParentKey}) : Completed(d)

C1_Witness ==
  /\ selection = <<>>
  /\ parentOf["x"] = "B" /\ parentOf["B"] = "A" /\ parentOf["A"] = None
  /\ hiddenIds = {}
  /\ "A" \in started /\ "A" \notin finished
  /\ Completed("B")
  /\ NoParentKey \notin started

\* the fields of a list element: its own when it is a copy, the caller's object's otherwise
EdgeValue(e) ==
  IF e.copy THEN [id |-> e.id, source |-> e.source, target |-> e.target]
  ELSE [id |-> e.id, source |-> edgeObj[e.id].source, target |-> edgeObj[e.id].target]

\* C2: the edge list a successful request returns equals the edge list passed in:
\* the same edges, each once, each with its original id, source and target.
C2_ReturnedEdgesEqualInput ==
  phase = "done" =>
    /\ Len(returned.edges) = Len(inputEdges)
    /\ \A k \in 1..Len(inputEdges) : EdgeValue(returned.edges[k]) = inputEdges[k]

\* C3: when the request has run to the end, every edge object of the caller has
\* the source and target it had before the request.
C3_CallerEdgesUntouched ==
  phase \in {"done", "failed"} => edgeObj = inputEdges

\* C4: when a request ends because the engine failed, every node of the shared
\* node map has the size, measured size, style size and position it started with.
C4_FailureLeavesNodeMap ==
  phase = "failed" => nodeMap = [n \in DOMAIN parentOf |-> InitialNode(n)]

\* C6: the node list committed by a successful request holds every node id of the
\* node list the request started from, each exactly once.
C6_CommittedKeepsEveryNode ==
  committed.made =>
    \A n \in Range(NodeOrder) :
      Cardinality({i \in 1..Len(committed.nodes) : committed.nodes[i].id = n}) = 1

\* C10: a request lays out any container a bounded number of times and returns:
\* no upward walk of the selective mode comes to the same container twice, and the
\* full-tree pass starts no container twice.
C10_NoContainerLaidOutTwice ==
  /\ \A w \in 1..Len(walks) :
       \A i, j \in 1..Len(walks[w].visited) :
         walks[w].visited[i] = walks[w].visited[j] => i = j
  /\ \A i, j \in 1..Len(levelOrder) : levelOrder[i] = levelOrder[j] => i = j


(***************************************************************************)
(* Properties of overlapping applyLayout calls (checked under SpecOps)     *)
(***************************************************************************)
CommitsOf(k) == {i \in 1..Len(commits) : commits[i].call = k}

\* C5: a call that was cancelled or whose computation threw has committed nothing
\* to the host and has resolved to exactly the lists it was given.
C5_CancelledOrFailedIsNoOp ==
  \A k \in 1..MaxCalls :
    (calls[k].pc = "returned" /\ (k \in abortedSet \/ calls[k].threw)) =>
      /\ CommitsOf(k) = {}
      /\ calls[k].ret = GivenLists(calls[k])

C5_Witness ==
  \E k, j, m \in 1..MaxCalls :
    /\ calls[k].pc = "returned" /\ calls[k].awaited /\ k \in abortedSet /\ ~calls[k].threw
    /\ calls[j].pc = "returned" /\ calls[j].threw /\ j \notin abortedSet
    /\ CommitsOf(m) # {}


(***************************************************************************)
(* Properties of filterSelectedParentNodes (checked under SpecFn)          *)
(***************************************************************************)
IsContainer(n) == n \in DOMAIN parentOf /\ IndexHas(n)

\* C11: for a selection made of a root container and one of its direct child
\* containers, the filter returns exactly the list holding the root container.
C11_NestedSelectionGivesOuter ==
  (fnOut.op = "filter" /\ Acyclic /\ Len(fnOut.sel) = 2) =>
    \A i, j \in 1..2 :
      (/\ IsContainer(fnOut.sel[i])
       /\ parentOf[fnOut.sel[i]] = None
       /\ IsContainer(fnOut.sel[j])
       /\ parentOf[fnOut.sel[j]] = fnOut.sel[i]) => fnOut.filtered = <<fnOut.sel[i]>>

\* C12: for a selection of one node that is not a container and whose parent is
\* a container, the filter returns exactly the list holding the parent's id.
C12_LeafSelectionGivesParent ==
  (/\ fnOut.op = "filter"
   /\ Len(fnOut.sel) = 1
   /\ fnOut.sel[1] \in DOMAIN parentOf
   /\ ~IsContainer(fnOut.sel[1])
   /\ IsContainer(ParentKeyOf(fnOut.sel[1]))) => fnOut.filtered = <<parentOf[fnOut.sel[1]]>>

\* C13: when no selected node and no parent of a selected node is a container
\* (the empty selection included), the filter returns exactly the list holding
\* the sentinel key.
C13_NoContainerGivesSentinel ==
  (/\ fnOut.op = "filter"
   /\ \A i \in 1..Len(fnOut.sel) :
        /\ ~IsContainer(fnOut.sel[i])
        /\ ~IsContainer(ParentKeyOf(fnOut.sel[i]))) => fnOut.filtered = <<NoParentKey>>

\* C14: in an acyclic hierarchy no container id the filter returns has a proper
\* ancestor, at any distance, that is also returned.
C14_NoReturnedAncestorPair ==
  (fnOut.op = "filter" /\ Acyclic) =>
    \A c, d \in Range(fnOut.filtered) : d \notin ProperAncestors(c)


(***************************************************************************)
(* Properties of the selective mode (checked under Spec)                   *)
(***************************************************************************)
\* the container ids the selection filter hands to processSelectedNodes
SelectedContainerIds ==
  Range(filterSelectedParentNodes(IF layoutHidden THEN selection
                                  ELSE SelectSeq(selection, LAMBDA n : n \notin hiddenIds)))

\* position and sizes of a list element, read through the objects it shares
PosOf(e) == IF e.copy THEN e.pos ELSE nodeMap[e.id].pos

SizeOf(e) ==
  IF e.copy
    THEN <<e.width, e.height, e.mW, e.mH,
           IF e.styleShared THEN nodeMap[e.id].sW ELSE 0,
           IF e.styleShared THEN nodeMap[e.id].sH ELSE 0>>
    ELSE <<nodeMap[e.id].width, nodeMap[e.id].height, nodeMap[e.id].mW, nodeMap[e.id].mH,
           nodeMap[e.id].sW, nodeMap[e.id].sH>>

InitialPos(n) == InitialNode(n).pos

InitialSize(n) ==
  <<InitialNode(n).width, InitialNode(n).height, InitialNode(n).mW, InitialNode(n).mH,
    InitialNode(n).sW, InitialNode(n).sH>>

\* C15: in selective mode only the children of the containers the selection
\* filter returned are repositioned and only those containers are resized; every
\* other node is committed with the position and size it had in the input.
C15_SelectiveFrame ==
  (phase = "done" /\ Len(selection) > 0) =>
    \A i \in 1..Len(committed.nodes) :
      LET e == committed.nodes[i] IN
      /\ e.id \notin SelectedContainerIds => SizeOf(e) = InitialSize(e.id)
      /\ ParentKeyOf(e.id) \notin SelectedContainerIds => PosOf(e) = InitialPos(e.id)


(***************************************************************************)
(* Properties of buildNodeTree (checked under SpecFn)                      *)
(***************************************************************************)
\* C16: every node of the forest buildNodeTree returns has a non-empty child set
\* in the index; a node without an entry or with an empty one is not in the tree.
C16_TreeNodesHaveChildren ==
  fnOut.op = "tree" =>
    \A i \in 1..Len(fnOut.tree) :
      IndexHas(fnOut.tree[i].id) /\ Len(ChildIdSet(fnOut.tree[i].id)) > 0

\* C17: when an engine is registered under the selected algorithm name, every
\* per-container engine call of a request is made to that engine
C17_RegisteredEngineRuns ==
  algorithm \in layoutEngines => \A c \in engineCalls : c[2] = algorithm

\* C18: two calls of layoutSingleContainer in a row for the same container hand the
\* engine the same children and the same edges and give the same width and height
C18_TwiceSameEngineInput ==
  (fnOut.op = "twice" /\ ~fnOut.twice[1].early) =>
    /\ ~fnOut.twice[2].early
    /\ fnOut.twice[2].engineNodes = fnOut.twice[1].engineNodes
    /\ fnOut.twice[2].engineEdges = fnOut.twice[1].engineEdges
    /\ fnOut.twice[2].width = fnOut.twice[1].width
    /\ fnOut.twice[2].height = fnOut.twice[1].height

UnresolvedEdge(e) == e.source \notin DOMAIN parentOf \/ e.target \notin DOMAIN parentOf

\* C19: an edge whose source or target resolves to no node is skipped:
\* createGlobalTemporaryEdgesMap holds no synthetic edge made from it, and
\* layoutSingleContainer hands the engine no edge made from it
C19_UnresolvedEdgesSkipped ==
  /\ fnOut.op = "temp" =>
       \A i \in 1..Len(fnOut.edges) :
         UnresolvedEdge(fnOut.edges[i]) => SyntheticOf(fnOut.temp, fnOut.edges[i]) = {}
  /\ fnOut.op = "twice" =>
       \A i \in 1..Len(fnOut.edges) :
         UnresolvedEdge(fnOut.edges[i]) =>
           \A j \in 1..Len(fnOut.twice[1].engineEdges) :
             fnOut.twice[1].engineEdges[j].id # fnOut.edges[i].id

\* the child set of container c is absent from the index, empty, or holds no id of a node
NoResolvingChild(c) ==
  \/ ~IndexHas(c)
  \/ \A i \in 1..Len(ChildIdSet(c)) : ChildIdSet(c)[i] \notin DOMAIN parentOf

\* C20: layoutSingleContainer for a container whose child set is absent, empty or
\* holds no id that resolves to a node returns no updated nodes, no updated edges
\* and no parent node, does not call the engine, and leaves every node of the node
\* map and every edge object as it was
C20_NoChildrenIsNoOp ==
  (fnOut.op = "twice" /\ NoResolvingChild(fnOut.src)) =>
    /\ fnOut.twice[1].nodes = <<>>
    /\ fnOut.twice[1].updatedEdges = <<>>
    /\ fnOut.twice[1].udpatedParentNode = None
    /\ fnOut.twice[1].early
    /\ fnOut.twice[1].engineNodes = <<>>
    /\ fnOut.nmAfter = fnOut.nmBefore
    /\ fnOut.twice[1].eo = fnOut.edges

\* a call for container y whose child set holds only an id without a node, with an
\* edge that leaves y
C20_Witness ==
  /\ fnOut.op = "twice"
  /\ fnOut.src = "y"
  /\ ChildIdSet("y") = <<Ghost>>
  /\ fnOut.edges = <<FnEdge(1, "y", "x")>>
  /\ fnOut.twice[1].early

(***************************************************************************)
(* Concurrency of the per-container calls                                  *)
(***************************************************************************)

\* the resumptions of one level's calls taken in call order
RECURSIVE ResumeInOrder(_, _, _, _)
ResumeInOrder(ids, results, i, nm) ==
  IF i > Len(ids) THEN nm
  ELSE ResumeInOrder(ids, results, i + 1, LayoutSingleContainerResume(ids[i], results[i], nm))

\* the full-tree pass with every call completing in call order
RECURSIVE LevelsInCallOrder(_, _, _, _, _)
LevelsInCallOrder(lv, nm, eo, accN, accE) ==
  IF lv = <<>> THEN [nm |-> nm, nodes |-> accN, edges |-> accE]
  ELSE LET sc == StartCalls(Head(lv), 1, nm, eo, VisibleEdgeIdxs, <<>>)
       IN LevelsInCallOrder(Tail(lv), ResumeInOrder(Head(lv), sc.results, 1, nm), sc.eo,
                            MergeLevelNodes(sc.results, 1, accN),
                            MergeLevelEdges(sc.results, 1, accE))

\* C21: in a full-tree request the containers laid out concurrently at one depth are
\* distinct nodes with pairwise disjoint children, and when the request has
\* computed its result the node map and the returned nodes are those of the pass in
\* which every call completes in call order, whatever the completion order was
C21_SameDepthOrderIrrelevant ==
  /\ phase = "fullWait" =>
       \A i, j \in 1..Len(inflight) :
         (i # j /\ ~inflight[i].early /\ ~inflight[j].early) =>
           /\ levelOrder[i] # levelOrder[j]
           /\ Range(inflight[i].engineNodes) \cap Range(inflight[j].engineNodes) = {}
  /\ (phase = "calcDone" /\ Len(selection) = 0) =>
       LET ref == LevelsInCallOrder(LevelsOf(buildNodeTree),
                                    [n \in DOMAIN parentOf |-> InitialNode(n)],
                                    inputEdges, <<>>, <<>>)
       IN /\ nodeMap = ref.nm
          /\ calcResult.nodes = CalculateLayoutReturn(ref.nodes, ref.edges).nodes

\* two containers of one level whose engine calls were made, the second completed first
C21_Witness ==
  /\ phase = "fullWait"
  /\ Len(inflight) = 2
  /\ ~inflight[1].early /\ ~inflight[2].early
  /\ ~inflight[1].done /\ inflight[2].done

\* one organizeLayoutRecursively run taken from its first pending call to its return
\* without any other run's step in between
RECURSIVE RunWalkAlone(_, _, _, _)
RunWalkAlone(wk, nm, eo, fuel) ==
  LET c  == wk.cur
      r  == wk.pending
      nm1 == LayoutSingleContainerResume(c, r, nm)
      upward == IF c \in DOMAIN parentOf /\ parentOf[c] # None THEN parentOf[c] ELSE NoParentKey
      call == LayoutSingleContainerCall(upward, nm1, eo, VisibleEdgeIdxs, layoutHidden)
      merged == [wk EXCEPT !.nodes = r.nodes \o wk.nodes, !.edges = r.updatedEdges \o wk.edges]
  IN IF c \notin DOMAIN parentOf \/ fuel = 0
       THEN [wk |-> [merged EXCEPT !.state = "done"], nm |-> nm, eo |-> eo]
       ELSE RunWalkAlone([merged EXCEPT !.cur = upward, !.pending = call,
                                         !.visited = Append(wk.visited, upward)],
                         nm1, call.eo, fuel - 1)

\* the runs of a selective request completed one after the other, in the order of the
\* filtered container ids
RECURSIVE WalksInOrder(_, _, _, _, _)
WalksInOrder(ws, w, nm, eo, acc) ==
  IF w > Len(ws) THEN acc
  ELSE LET run == RunWalkAlone(ws[w], nm, eo, MaxWalkSteps)
       IN WalksInOrder(ws, w + 1, run.nm, run.eo, Append(acc, run.wk))

\* what calculateLayout resolves to when the runs of the selective request complete
\* one after the other
SelectiveInOrder ==
  LET nm0 == [n \in DOMAIN parentOf |-> InitialNode(n)]
      filteredSelected == IF layoutHidden THEN selection
                          ELSE SelectSeq(selection, LAMBDA n : n \notin hiddenIds)
      filteredParentIds == filterSelectedParentNodes(filteredSelected)
      sc == StartCalls(filteredParentIds, 1, nm0, inputEdges, VisibleEdgeIdxs, <<>>)
      ws == [w \in 1..Len(filteredParentIds) |-> NewWalk(filteredParentIds[w], sc.results[w])]
      sel == ProcessSelectedReturn(WalksInOrder(ws, 1, nm0, sc.eo, <<>>))
  IN CalculateLayoutReturn(sel.nodes, sel.edges)

\* the containers a run has laid out by engine call
LaidOutBy(wk) == Range(wk.visited)

\* C22: in a selective request the concurrently started runs lay out pairwise
\* disjoint sets of containers, no node is returned by two runs, and the merged
\* node list is the one obtained when the runs complete one after the other
C22_SelectiveRunsDisjoint ==
  /\ \A v, w \in 1..Len(walks) :
       v # w =>
         /\ LaidOutBy(walks[v]) \cap LaidOutBy(walks[w]) = {}
         /\ {walks[v].nodes[i].id : i \in 1..Len(walks[v].nodes)}
              \cap {walks[w].nodes[i].id : i \in 1..Len(walks[w].nodes)} = {}
  /\ (phase = "calcDone" /\ Len(selection) > 0 /\ Acyclic) =>
       calcResult.nodes = SelectiveInOrder.nodes

(***************************************************************************)
(* Overlapping applyLayout calls (checked under SpecOps)                    *)
(***************************************************************************)

\* the calls started so far; calls start in the order of their numbers
StartedCalls == {k \in 1..MaxCalls : calls[k].pc # "idle"}

\* C23: a commit to the host is made only by the most recently started call and with
\* that call's own result; a call that was superseded while it awaited its
\* computation never commits, whichever computation finishes first
C23_OnlyLatestCommits ==
  [][Len(commits') > Len(commits) =>
       LET made == commits'[Len(commits')]
       IN /\ \A j \in StartedCalls : j <= made.call
          /\ made.call \notin abortedSet
          /\ made.lists = ResultLists(calls[made.call])]_vars

\* call 1 was superseded by call 2 while awaiting; call 2's computation finished
\* first and was committed, call 1's finished afterwards
C23_Witness ==
  /\ calls[1].pc = "returned" /\ calls[1].awaited /\ ~calls[1].threw
  /\ calls[2].pc = "returned" /\ calls[2].awaited /\ ~calls[2].threw
  /\ 1 \in abortedSet
  /\ Len(commits) = 1
  /\ commits[1].call = 2
  /\ calls[1].ret.kind = "given"

(***************************************************************************)
(* The write-back of a container's size (checked under Spec)                *)
(***************************************************************************)

\* the node map nm2 after the call for container c, whose engine call returned r,
\* has resumed on the node map nm
WriteBackOk(c, r, nm, nm2) ==
  IF c \in DOMAIN nm /\ r.width > 0 /\ r.height > 0
    THEN /\ nm2[c].width = r.width /\ nm2[c].height = r.height
         /\ nm2[c].mW = r.width /\ nm2[c].mH = r.height
         /\ nm2[c].hasStyle /\ nm2[c].sW = r.width /\ nm2[c].sH = r.height
         /\ nm2[c].sOther = nm[c].sOther
         /\ nm2[c].pos = nm[c].pos
         /\ \A n \in DOMAIN nm \ {c} : nm2[n] = nm[n]
    ELSE nm2 = nm

\* the call returns the engine's copies of the children it handed over (the hidden
\* ones left out when hidden nodes are not laid out)
ChildrenReturned(r) ==
  [i \in 1..Len(r.nodes) |-> r.nodes[i].id]
    = (IF layoutHidden THEN r.engineNodes
       ELSE SelectSeq(r.engineNodes, LAMBDA n : n \notin hiddenIds))

\* C24: when a layoutSingleContainer call with resolvable children resumes after its
\* engine call, a container node and a positive width and height give that node the
\* returned width, height, measured size and style size with its other style
\* properties kept; a zero width or height, or a container id without a node, leave
\* every node as it was; in both cases the call returns the laid-out children
C24_SizeWrittenBack ==
  [][/\ \A i \in 1..Len(inflight) :
          (/\ Len(inflight') = Len(inflight)
           /\ ~inflight[i].done /\ inflight'[i].done
           /\ ~inflight[i].early /\ failAt # levelOrder[i]) =>
            /\ WriteBackOk(levelOrder[i], inflight[i], nodeMap, nodeMap')
            /\ ChildrenReturned(inflight[i])
     /\ \A w \in 1..Len(walks) :
          (/\ Len(walks') = Len(walks)
           /\ walks[w].state = "wait" /\ walks'[w] # walks[w]
           /\ ~walks[w].pending.early /\ failAt # walks[w].cur) =>
            /\ WriteBackOk(walks[w].cur, walks[w].pending, nodeMap, nodeMap')
            /\ ChildrenReturned(walks[w].pending)]_vars

\* container A, whose style holds another property, has been resized by its call
C24_Witness ==
  /\ "A" \in finished
  /\ nodeMap["A"].sW > 0 /\ nodeMap["A"].sW = nodeMap["A"].width
  /\ nodeMap["A"].sOther = 1

(***************************************************************************)
(* Cycle defence of the tree utilities (checked under SpecFn)               *)
(***************************************************************************)

\* the upward walk from n comes back to an id it has visited
LeadsToCycle(n) ==
  /\ n \in DOMAIN parentOf
  /\ \E m \in {n} \cup ProperAncestors(n) : m \in ProperAncestors(m)

\* C25: getAncestorPath returns for every parent relation, cyclic ones included, a
\* path without a repeated id; when the walk comes back to a visited id the path is
\* the chain of ids visited up to there and holds no sentinel
C25_AncestorPathCycleSafe ==
  fnOut.op = "path" =>
    LET p == fnOut.path IN
      /\ Len(p) <= Cardinality(Ids) + 1
      /\ \A i, j \in 1..Len(p) : p[i] = p[j] => i = j
      /\ LeadsToCycle(fnOut.src) =>
           /\ Len(p) >= 1
           /\ p[1] = fnOut.src
           /\ \A i \in 2..Len(p) : p[i] = parentOf[p[i - 1]]
           /\ parentOf[p[Len(p)]] \in Range(p)
           /\ NoParentKey \notin Range(p)

\* the path from y into the cycle of A and B
C25_Witness ==
  /\ fnOut.op = "path"
  /\ fnOut.src = "y"
  /\ parentOf = [A |-> "B", B |-> "A", x |-> "A", y |-> "x"]
  /\ fnOut.path = <<"y", "x", "A", "B">>

\* C26: buildNodeTree returns for every index and node map, cyclic ones included, a
\* forest in which no node id occurs twice; no root lies on a parent cycle, and when
\* no container is left without a parentId the forest is empty
C26_TreeCycleSafe ==
  fnOut.op = "tree" =>
    /\ \A i, j \in 1..Len(fnOut.tree) : fnOut.tree[i].id = fnOut.tree[j].id => i = j
    /\ \A i \in 1..Len(fnOut.tree) :
         fnOut.tree[i].parent = None => fnOut.tree[i].id \notin ProperAncestors(fnOut.tree[i].id)
    /\ (\A c \in Containers : parentOf[c] # None) => fnOut.tree = <<>>

\* A held B, B held x, x held y; A was then given the parentId x
C26_Witness ==
  /\ fnOut.op = "tree"
  /\ parentOf = [A |-> "x", B |-> "A", x |-> "B", y |-> "x"]
  /\ extraIndex = <<>>
  /\ fnOut.tree = <<>>

\* the entry of tree node id in the flattened forest
TreeEntry(tree, id) == tree[CHOOSE i \in 1..Len(tree) : tree[i].id = id]

WithResolvableChild == {c \in Containers \cup {NoParentKey} :
                          Range(ChildIdSet(c)) \cap DOMAIN parentOf # {}}

\* the container ids still to be started, level by level
PendingLevelIds == [l \in 1..Len(levels) |-> Range(levels[l])]

\* no container is started a second time: the ids of the remaining levels are
\* distinct and none of them has been started
StartedAtMostOnce ==
  /\ \A l \in 1..Len(levels) :
       /\ PendingLevelIds[l] \cap started = {}
       /\ \A i, j \in 1..Len(levels[l]) : levels[l][i] = levels[l][j] => i = j
       /\ \A m \in 1..Len(levels) : l # m => PendingLevelIds[l] \cap PendingLevelIds[m] = {}
  /\ \A i, j \in 1..Len(levelOrder) : levelOrder[i] = levelOrder[j] => i = j

TimesUpdated(n) == Cardinality({i \in 1..Len(allUpdatedNodes) : allUpdatedNodes[i].id = n})

\* the engine was called once for the containers with a resolvable child and for the
\* sentinel, and for nothing else
EngineCalledForContainers ==
  /\ StartedAtMostOnce
  /\ phase = "calcDone" => {c[1] : c \in engineCalls} = WithResolvableChild

\* C28 as stated: in a full-tree request over an acyclic hierarchy the engine is
\* called exactly once for every container with a resolvable child and for the
\* sentinel, and every node is once in the list of updated nodes
C28_EveryNodeUpdatedOnce ==
  (Len(selection) = 0 /\ Acyclic) =>
    /\ EngineCalledForContainers
    /\ phase = "calcDone" => \A n \in DOMAIN parentOf : TimesUpdated(n) = 1

\* C28 amended: the engine calls are as stated; every node the engine lays out (every
\* node when hidden nodes are laid out, every node that is not hidden otherwise) is
\* once in the list of updated nodes, a hidden node that is not laid out is not in it
C28_LaidOutNodesUpdatedOnce ==
  (Len(selection) = 0 /\ Acyclic) =>
    /\ EngineCalledForContainers
    /\ phase = "calcDone" =>
         \A n \in DOMAIN parentOf :
           TimesUpdated(n) = IF layoutHidden \/ n \notin hiddenIds THEN 1 ELSE 0

\* a finished full-tree request over nested containers with the hidden node x left out
C28_Witness ==
  /\ phase = "calcDone"
  /\ Len(selection) = 0
  /\ parentOf = [A |-> "B", B |-> None, x |-> "A", y |-> "A"]
  /\ hiddenIds = {"x"} /\ ~layoutHidden
  /\ TimesUpdated("x") = 0 /\ TimesUpdated("y") = 1
  /\ {c[1] : c \in engineCalls} = {"A", "B", NoParentKey}

\* C29: whenever every applyLayout call made so far has returned, the
\* layoutInProgress flag is false
C29_FlagClearedWhenAllReturned ==
  (\A k \in 1..MaxCalls : calls[k].pc # "awaiting") => ~layoutInProgress


\* a setting was changed while the provider's request was running, and the request the change
\* triggered has been turned away
ChangeTurnedAway ==
  /\ autoLayout
  /\ running # NoRequest
  /\ running.settings # Settings
  /\ ~effectQueued

\* C30: with autoLayout on, when a change of direction, nodeSpacing or layerSpacing was turned
\* away by the in-progress guard, a layout computed with the new value is eventually applied to
\* the host (unless the user changes the settings again or switches autoLayout off)
C30_ChangeDuringLayoutApplied ==
  \A s \in SettingsChoices :
    (ChangeTurnedAway /\ Settings = s) ~> (applied = s \/ Settings # s \/ ~autoLayout)

====
